---- MODULE Spec2Model ----
(***************************************************************************)
(* Model of src/iiwa_kdl/src/kuka_invkin_ctrl.cpp (class KUKA_INVKIN).     *)
(*                                                                         *)
(* Three execution contexts share the object without any lock:             *)
(*   - the ros::spin() thread, which runs joint_states_cb;                 *)
(*   - the get_dirkin thread (pose estimation, forward kinematics);        *)
(*   - the ctrl_loop thread (homing, operator prompt, tracking).           *)
(* Every access to a shared field is a separate step, so the entry-by-     *)
(* entry writes of joint_states_cb interleave with the entry-by-entry      *)
(* reads of the solvers and of goto_initial_position.                      *)
(*                                                                         *)
(* Units: joint positions are integers in 0.001 rad; _t counts periods of  *)
(* 1/_freq seconds.  The KDL solvers are external: the frame and the       *)
(* quaternion of forward kinematics are uninterpreted names for "the       *)
(* result on the joint values read in this tick", the inverse kinematics   *)
(* outcome is a nondeterministic choice.  Only goto_initial_position uses  *)
(* the joint values themselves.                                            *)
(***************************************************************************)
EXTENDS Integers, Sequences, FiniteSets, TLC

\* ---------------------------------------------------------------- constants
NJ == 7
Joints == 1..NJ

\* i_cmd of ctrl_loop, in 0.001 rad
i_cmd == <<0, 1570, 0, 1570, 0, 0, 0>>

\* while( max_e > 0.002 ), in 0.001 rad
Threshold == 2
\* float max_e = 1000.0
MaxEInit == 1000000
\* max_e = -1000
MaxEReset == -1000000

\* bound on the elapsed-time counter (keeps the state space finite)
MaxT == 2

ZeroVec == [j \in Joints |-> 0]

\* feedback messages the transport may deliver (js.position[0..6])
JsHome == i_cmd
JsA == <<0, 1570, 0, 0, 0, 0, 0>>
JsB == <<0, 0, 0, 1570, 0, 0, 0>>
JsMsgs == {JsHome, JsA, JsB}

\* joint vectors the inverse-kinematics solver may leave in q_out
IkSolA == <<100, 200, 300, 400, 500, 600, 700>>
IkSolB == <<-100, -200, -300, -400, -500, -600, -700>>
IkOutputs == {IkSolA, IkSolB}
IkCodes == {"E_NOERROR", "E_MAX_ITERATIONS_EXCEEDED"}

Abs(x) == IF x < 0 THEN -x ELSE x

\* all joints of v within the homing threshold of the target dp
Within(v, dp) == \A j \in Joints : ~(Abs(dp[j] - v[j]) > Threshold)

\* ------------------------------------------------------- external solvers
\* a scalar is an uninterpreted name; "0" is the number zero
Zero == "0"
\* KDL::Frame default constructor: identity
IdentityFrame == [p |-> "p0", M |-> "I"]
\* ChainFkSolverPos_recursive::JntToCart: the frame of the joint values read
JntToCartFrame == [p |-> "p", M |-> "M"]
\* Rotation::GetQuaternion(qx, qy, qz, qw): the four components of M
GetQuaternion(M) ==
    [qx |-> <<"qx", M>>, qy |-> <<"qy", M>>,
     qz |-> <<"qz", M>>, qw |-> <<"qw", M>>]
PosX(F) == <<"x", F.p>>
PosY(F) == <<"y", F.p>>
PosZ(F) == <<"z", F.p>>

\* geometry_msgs::Pose default constructor: all fields 0
ZeroScalar == <<Zero, Zero>>
ZeroPose ==
    [position |-> [x |-> ZeroScalar, y |-> ZeroScalar, z |-> ZeroScalar],
     orientation |-> [w |-> ZeroScalar, x |-> ZeroScalar, y |-> ZeroScalar,
                      z |-> ZeroScalar]]
\* nothing has been published on the pose topic yet
NoScalar == <<"none", "none">>
NoPose ==
    [position |-> [x |-> NoScalar, y |-> NoScalar, z |-> NoScalar],
     orientation |-> [w |-> NoScalar, x |-> NoScalar, y |-> NoScalar,
                      z |-> NoScalar]]

\* ------------------------------------------------- the desired trajectory
\* Lengths are in 0.001 m, angles in 0.001 rad, cosines and sines in 0.001.
\* 1/_freq in 0.001 s
PeriodMs == 20
\* 2*M_PI in 0.001
TwoPiMilli == 6283
\* M_PI/2 in 0.001 rad
HalfPiMilli == 1571
\* the radius 0.3 of the circle
Radius == 300
\* F_dest.p.data[2] = 1.0
GoalZ == 1000

\* the argument _t/(2*M_PI) of cos and sin, for _t = tk periods
Theta(tk) == (tk * PeriodMs * 1000) \div TwoPiMilli

\* cos on [0, pi/2] by its series up to the x^6 term (the next term is below
\* 0.001 there); every product is rescaled to 0.001 before the next one
CosQ(x) ==
    LET x2 == (x * x) \div 1000
        x4 == (x2 * x2) \div 1000
        x6 == (x4 * x2) \div 1000
    IN  1000 - (x2 \div 2) + (x4 \div 24) - (x6 \div 720)

\* cos(th), th >= 0: reduction to one turn, then to the first quadrant
CosMilli(th) ==
    LET r == th % TwoPiMilli
    IN  IF r <= HalfPiMilli THEN CosQ(r)
        ELSE IF r <= 2 * HalfPiMilli THEN -CosQ(2 * HalfPiMilli - r)
        ELSE IF r <= 3 * HalfPiMilli THEN -CosQ(r - 2 * HalfPiMilli)
        ELSE CosQ(TwoPiMilli - r)
\* sin(th) = cos(th - pi/2), shifted by one turn to stay non-negative
SinMilli(th) == CosMilli(th + TwoPiMilli - HalfPiMilli)

\* 0.3*cos(_t/(2*M_PI)) and 0.3*sin(_t/(2*M_PI)) for _t = tk periods
GoalX(tk) == (Radius * CosMilli(Theta(tk))) \div 1000
GoalY(tk) == (Radius * SinMilli(Theta(tk))) \div 1000

\* F_dest of ctrl_loop: p.data[0] computed from the value tx read from _t,
\* p.data[1] from the value ty read from _t, p.data[2] = 1.0, M = identity
TrajFrame(tx, ty) ==
    [tx |-> tx, ty |-> ty, px |-> GoalX(tx), py |-> GoalY(ty),
     z |-> GoalZ, M |-> "I"]
\* KDL::Frame default constructor, before the first tracking tick
NoFrame == [tx |-> -1, ty |-> -1, px |-> 0, py |-> 0, z |-> 0, M |-> "I"]

\* -------------------------------------------------------------------- state
VARIABLES
    q_in,          \* *_q_in
    first_js,      \* _first_js
    first_fk,      \* _first_fk
    start_traj,    \* _start_traj
    t,             \* _t, in periods of 1/_freq
    p_out,         \* _p_out
    cb_pc, cb_i, cb_js,                    \* joint_states_cb activation
    fk_pc, fk_i, cpose, pose_pub,          \* get_dirkin thread
    c_pc, c_i, max_e, F_dest, q_out, ik_rc, cmd_pub,   \* ctrl_loop thread
    \* history variables (not program state)
    fk_src, c_src,     \* where the entries read in the current pass came from
    goodMsgSeen,       \* a delivered message had all joints within the threshold
    milestones,        \* what the ctrl_loop thread has passed, in order
    cmd_n,             \* publishes per channel in the current loop iteration
    cmd_ever,          \* some joint command has been published
    cposeWrites,       \* assignments per orientation field in the last tick
    cmd_log,           \* <<channel, value>> of each publish of the current
                       \* loop iteration, in the order of the publishes
    q_written,         \* entries of *_q_in some feedback message has written
    \* the main thread
    boot               \* where main() is, and what the constructor has made

shared == <<q_in, first_js, first_fk, start_traj, t, p_out>>
cbv == <<cb_pc, cb_i, cb_js>>
fkv == <<fk_pc, fk_i, cpose, pose_pub>>
cv == <<c_pc, c_i, max_e, F_dest, q_out, ik_rc, cmd_pub>>
hist == <<fk_src, c_src, goodMsgSeen, milestones, cmd_n,
          cmd_ever, cposeWrites>>
extra == <<cmd_log, q_written, boot>>
vars == <<shared, cbv, fkv, cv, hist, extra>>

\* what ctrl_loop passes before it sets _start_traj, in program order
Startup == <<"pose_seen", "homed", "confirmed">>

NoWrites == [w |-> 0, x |-> 0, y |-> 0, z |-> 0]
NoCmds == [j \in Joints |-> 0]

\* main() once run() has started the two threads and entered ros::spin()
Spinning == [pc |-> "spin", diag |-> FALSE, wired |-> TRUE, tasks |-> TRUE]

\* state after the constructor (model loaded, flags false, _t = 0) and run()
Init ==
    /\ q_in = ZeroVec
    /\ first_js = FALSE
    /\ first_fk = FALSE
    /\ start_traj = FALSE
    /\ t = 0
    /\ p_out = IdentityFrame
    /\ cb_pc = "idle" /\ cb_i = 0 /\ cb_js = ZeroVec
    /\ fk_pc = "wait_js" /\ fk_i = 0
    /\ cpose = ZeroPose /\ pose_pub = NoPose
    /\ c_pc = "wait_fk" /\ c_i = 0 /\ max_e = 0 /\ F_dest = NoFrame
    /\ q_out = ZeroVec /\ ik_rc = "none"
    /\ cmd_pub = ZeroVec
    /\ fk_src = "none" /\ c_src = "none"
    /\ goodMsgSeen = FALSE /\ milestones = <<>>
    /\ cmd_n = NoCmds /\ cmd_ever = FALSE
    /\ cposeWrites = NoWrites
    /\ cmd_log = <<>> /\ q_written = {}
    /\ boot = Spinning

\* --------------------------------------------- main(): constructor and run()
\* main() before the KUKA_INVKIN object is constructed: no subscription, no
\* publisher, no thread; _q_in is not allocated and the flags and _t are
\* members without initialiser, so they hold whatever the stack held
Unborn == [pc |-> "load", diag |-> FALSE, wired |-> FALSE, tasks |-> FALSE]

BootInit ==
    /\ q_in = <<>>
    /\ first_js \in BOOLEAN /\ first_fk \in BOOLEAN /\ start_traj \in BOOLEAN
    /\ t \in 0..MaxT
    /\ p_out = IdentityFrame
    /\ cb_pc = "idle" /\ cb_i = 0 /\ cb_js = ZeroVec
    /\ fk_pc = "unborn" /\ fk_i = 0
    /\ cpose = ZeroPose /\ pose_pub = NoPose
    /\ c_pc = "unborn" /\ c_i = 0 /\ max_e = 0 /\ F_dest = NoFrame
    /\ q_out = ZeroVec /\ ik_rc = "none"
    /\ cmd_pub = ZeroVec
    /\ fk_src = "none" /\ c_src = "none"
    /\ goodMsgSeen = FALSE /\ milestones = <<>>
    /\ cmd_n = NoCmds /\ cmd_ever = FALSE
    /\ cposeWrites = NoWrites
    /\ cmd_log = <<>> /\ q_written = {}
    /\ boot = Unborn

\* what init_robot_model can meet: the description parses and holds the chain,
\* the description does not parse, the tree has no chain from base to tip
LoadOutcomes == {"ok", "tree_fail", "chain_fail"}

\* init_robot_model(): treeFromString fails -> ROS_ERROR and return false;
\* getChain fails -> return false; otherwise the solvers and *_q_in (a
\* zeroed JntArray of the chain's joint count) are made and it returns true
LoadModel(outcome) ==
    /\ boot.pc = "load"
    /\ boot' = [boot EXCEPT
                   !.pc = IF outcome = "ok" THEN "construct" ELSE "load_failed",
                   !.diag = (outcome = "tree_fail")]
    /\ q_in' = IF outcome = "ok" THEN ZeroVec ELSE q_in
    /\ UNCHANGED <<first_js, first_fk, start_traj, t, p_out, cbv, fkv, cv,
                   hist, cmd_log, q_written>>

\* if (!init_robot_model()) exit(1);
ExitOnLoadFailure ==
    /\ boot.pc = "load_failed"
    /\ boot' = [boot EXCEPT !.pc = "exited"]
    /\ UNCHANGED <<shared, cbv, fkv, cv, hist, cmd_log, q_written>>

\* the rest of the constructor: subscribe, advertise 1 + 7 publishers, the
\* three flags false, _freq = 50, _t = 0
Construct ==
    /\ boot.pc = "construct"
    /\ boot' = [boot EXCEPT !.pc = "run", !.wired = TRUE]
    /\ first_js' = FALSE /\ first_fk' = FALSE /\ start_traj' = FALSE
    /\ t' = 0
    /\ UNCHANGED <<q_in, p_out, cbv, fkv, cv, hist, cmd_log, q_written>>

\* run(): the two boost threads are started, then ros::spin()
Run ==
    /\ boot.pc = "run"
    /\ boot' = [boot EXCEPT !.pc = "spin", !.tasks = TRUE]
    /\ fk_pc' = "wait_js" /\ c_pc' = "wait_fk"
    /\ UNCHANGED <<shared, cbv, fk_i, cpose, pose_pub, c_i, max_e, F_dest,
                   q_out, ik_rc, cmd_pub, hist, cmd_log, q_written>>

\* ------------------------------------------- which message wrote an entry
\* An entry of *_q_in is "cur" when the latest callback activation wrote it,
\* "prev" when it still holds what it held before that activation.  A reader
\* remembers where the entries it has read in this pass came from: "none"
\* (nothing read yet), "cur", "prev", "stale" (a message older than "prev")
\* or "torn" (entries of two different messages).
Label(j) == IF cb_pc = "write" /\ j >= cb_i THEN "prev" ELSE "cur"
Age(s) == IF s = "cur" THEN "prev" ELSE IF s = "prev" THEN "stale" ELSE s
SrcAfter(src, l) == IF src = "none" \/ src = l THEN l ELSE "torn"


\* ------------------------------------------------ joint_states_cb (spinner)
\* the transport invokes the callback with message js (ros::spin, line 329)
Deliver(js) ==
    /\ boot.pc = "spin"
    /\ cb_pc = "idle"
    /\ cb_pc' = "write" /\ cb_i' = 1 /\ cb_js' = js
    /\ fk_src' = Age(fk_src) /\ c_src' = Age(c_src)
    /\ goodMsgSeen' = (goodMsgSeen \/ Within(js, i_cmd))
    /\ UNCHANGED <<shared, fkv, cv, milestones, cmd_n, cmd_ever, cposeWrites>>
    /\ UNCHANGED extra

\* one iteration of: for(i<7) _q_in->data[i] = js.position[i]
CbWrite ==
    /\ cb_pc = "write"
    /\ q_in' = [q_in EXCEPT ![cb_i] = cb_js[cb_i]]
    /\ IF cb_i < NJ
          THEN cb_i' = cb_i + 1 /\ cb_pc' = "write"
          ELSE cb_i' = 0 /\ cb_pc' = "flag"
    /\ UNCHANGED <<first_js, first_fk, start_traj, t, p_out, cb_js, fkv, cv, hist>>
    /\ q_written' = q_written \cup {cb_i}
    /\ UNCHANGED <<cmd_log, boot>>

\* CbFlag with a fault: the flag is toggled instead of set
CbFlag_Toggle ==
    /\ cb_pc = "flag"
    /\ first_js' = ~first_js
    /\ cb_pc' = "idle" /\ cb_js' = ZeroVec
    /\ UNCHANGED <<q_in, first_fk, start_traj, t, p_out, cb_i, fkv, cv, hist>>
    /\ UNCHANGED extra

\* _first_js = true; the callback returns
CbFlag ==
    /\ cb_pc = "flag"
    /\ first_js' = TRUE
    /\ cb_pc' = "idle" /\ cb_js' = ZeroVec
    /\ UNCHANGED <<q_in, first_fk, start_traj, t, p_out, cb_i, fkv, cv, hist>>
    /\ UNCHANGED extra

\* The store of line 157 as another thread can see it: _first_js and the
\* entries of *_q_in are plain objects written with no synchronisation, so
\* nothing orders the store to the flag after the stores of the loop; the
\* flag can read true while entries of the first message are still to come.
CbFlagEarly ==
    /\ cb_pc = "write"
    /\ ~first_js
    /\ first_js' = TRUE
    /\ UNCHANGED <<q_in, first_fk, start_traj, t, p_out, cbv, fkv, cv, hist>>
    /\ UNCHANGED extra

\* ------------------------------------------------------ get_dirkin thread
\* FkWait with a fault: the loop is entered without waiting for the flag
FkWait_NoWait ==
    /\ fk_pc = "wait_js"
    /\ fk_pc' = "tick"
    /\ UNCHANGED <<shared, cbv, fk_i, cpose, pose_pub, cv, hist>>
    /\ UNCHANGED extra

\* while( !_first_js ) usleep(0.1);
FkWait ==
    /\ fk_pc = "wait_js"
    /\ first_js
    /\ fk_pc' = "tick"
    /\ UNCHANGED <<shared, cbv, fk_i, cpose, pose_pub, cv, hist>>
    /\ UNCHANGED extra

\* the ctrl_loop thread is inside goto_initial_position or at its getline
CtrlBlocked == c_pc \in {"home_test", "home_body", "settle", "getline"}

\* FkTick with a fault: _t advances without the test of _start_traj
FkTick_Unconditional ==
    /\ fk_pc = "tick"
    /\ t < MaxT
    /\ t' = t + 1
    /\ fk_pc' = "read" /\ fk_i' = 1
    /\ UNCHANGED <<q_in, first_js, first_fk, start_traj, p_out, cbv,
                   cpose, pose_pub, cv, hist>>
    /\ UNCHANGED extra

\* FkTick with a fault: the tick needs a lock the ctrl_loop thread holds while
\* it is homing or waiting for the operator
FkTick_LockedOut ==
    /\ fk_pc = "tick"
    /\ ~CtrlBlocked
    /\ start_traj => t < MaxT
    /\ t' = IF start_traj THEN t + 1 ELSE t
    /\ fk_pc' = "read" /\ fk_i' = 1
    /\ UNCHANGED <<q_in, first_js, first_fk, start_traj, p_out, cbv,
                   cpose, pose_pub, cv, hist>>
    /\ UNCHANGED extra

\* top of the loop: if(_start_traj) _t = _t + 1.0/_freq;
FkTick ==
    /\ fk_pc = "tick"
    /\ start_traj => t < MaxT
    /\ t' = IF start_traj THEN t + 1 ELSE t
    /\ fk_pc' = "read" /\ fk_i' = 1
    /\ UNCHANGED <<q_in, first_js, first_fk, start_traj, p_out, cbv,
                   cpose, pose_pub, cv, hist>>
    /\ UNCHANGED extra

\* JntToCart reads one entry of *_q_in
FkRead ==
    /\ fk_pc = "read"
    /\ fk_src' = SrcAfter(fk_src, Label(fk_i))
    /\ IF fk_i < NJ
          THEN fk_i' = fk_i + 1 /\ fk_pc' = "read"
          ELSE fk_i' = 0 /\ fk_pc' = "publish"
    /\ UNCHANGED <<shared, cbv, cpose, pose_pub, cv, c_src,
                   goodMsgSeen, milestones, cmd_n, cmd_ever, cposeWrites>>
    /\ UNCHANGED extra

\* the assignments to cpose.orientation, in program order (lines 224-227)
OrientationAssignments ==
    << <<"w", "qw">>, <<"x", "qx">>, <<"y", "qy">>, <<"x", "qz">> >>

RECURSIVE AssignOrientation(_, _, _)
AssignOrientation(o, quat, k) ==
    IF k > Len(OrientationAssignments) THEN o
    ELSE LET a == OrientationAssignments[k]
         IN  AssignOrientation([o EXCEPT ![a[1]] = quat[a[2]]], quat, k + 1)

\* how many times each orientation field is assigned in one tick
CountWrites ==
    [f \in {"w", "x", "y", "z"} |->
        Cardinality({k \in 1..Len(OrientationAssignments) :
                        OrientationAssignments[k][1] = f})]

\* cpose after lines 216-227, from the frame F
FillPose(cp, F) ==
    [position |-> [x |-> PosX(F), y |-> PosY(F), z |-> PosZ(F)],
     orientation |-> AssignOrientation(cp.orientation, GetQuaternion(F.M), 1)]

\* JntToCart stores _p_out; cpose is filled and published
FkPublish ==
    /\ fk_pc = "publish"
    /\ p_out' = JntToCartFrame
    /\ cpose' = FillPose(cpose, p_out')
    /\ pose_pub' = cpose'
    /\ cposeWrites' = CountWrites
    /\ fk_src' = "none"
    /\ fk_pc' = "flag"
    /\ UNCHANGED <<q_in, first_js, first_fk, start_traj, t, cbv, fk_i, cv,
                   c_src, goodMsgSeen, milestones, cmd_n, cmd_ever>>
    /\ UNCHANGED extra

\* _first_fk = true; r.sleep();
FkFlag ==
    /\ fk_pc = "flag"
    /\ first_fk' = TRUE
    /\ fk_pc' = "tick"
    /\ UNCHANGED <<q_in, first_js, start_traj, t, p_out, cbv, fk_i,
                   cpose, pose_pub, cv, hist>>
    /\ UNCHANGED extra


\* -------------------------------------------------------- ctrl_loop thread
\* CtrlWaitFk with a fault: the loop polls _first_js instead of _first_fk
CtrlWaitFk_OnJs ==
    /\ c_pc = "wait_fk"
    /\ first_js
    /\ c_pc' = "home_test" /\ max_e' = MaxEInit
    /\ milestones' = Append(milestones, "pose_seen")
    /\ UNCHANGED <<shared, cbv, fkv, c_i, F_dest, q_out, ik_rc, cmd_pub,
                   fk_src, c_src, goodMsgSeen, cmd_n, cmd_ever, cposeWrites>>
    /\ UNCHANGED extra

\* while( !_first_fk ) usleep(0.1);  then goto_initial_position( i_cmd ) starts
CtrlWaitFk ==
    /\ c_pc = "wait_fk"
    /\ first_fk
    /\ c_pc' = "home_test" /\ max_e' = MaxEInit
    /\ milestones' = Append(milestones, "pose_seen")
    /\ UNCHANGED <<shared, cbv, fkv, c_i, F_dest, q_out, ik_rc, cmd_pub,
                   fk_src, c_src, goodMsgSeen, cmd_n, cmd_ever, cposeWrites>>
    /\ UNCHANGED extra

\* goto_initial_position: while( max_e > 0.002 ) { max_e = -1000; ...
\* and, when the test fails, the way out of the loop
HomeTest ==
    /\ c_pc = "home_test"
    /\ IF max_e > Threshold
          THEN /\ max_e' = MaxEReset /\ c_i' = 1 /\ c_pc' = "home_body"
               /\ cmd_n' = NoCmds
          ELSE /\ max_e' = 0 /\ c_i' = 0 /\ c_pc' = "settle"
               /\ cmd_n' = cmd_n
    /\ c_src' = "none"
    /\ UNCHANGED <<shared, cbv, fkv, F_dest, q_out, ik_rc, cmd_pub,
                   fk_src, goodMsgSeen, milestones, cmd_ever, cposeWrites>>
    /\ cmd_log' = IF max_e > Threshold THEN <<>> ELSE cmd_log
    /\ UNCHANGED <<q_written, boot>>

\* HomeBody with a fault: the value read back is commanded, not the target
HomeBody_PublishesFeedback ==
    /\ c_pc = "home_body"
    /\ cmd_pub' = [cmd_pub EXCEPT ![c_i] = q_in[c_i]]
    /\ cmd_n' = [cmd_n EXCEPT ![c_i] = @ + 1]
    /\ cmd_ever' = TRUE
    /\ LET e == Abs(i_cmd[c_i] - q_in[c_i])
       IN  max_e' = IF e > max_e THEN e ELSE max_e
    /\ c_src' = SrcAfter(c_src, Label(c_i))
    /\ IF c_i < NJ
          THEN c_i' = c_i + 1 /\ c_pc' = "home_body"
          ELSE c_i' = 0 /\ c_pc' = "home_test"
    /\ UNCHANGED <<shared, cbv, fkv, F_dest, q_out, ik_rc,
                   fk_src, goodMsgSeen, milestones, cposeWrites>>
    /\ cmd_log' = Append(cmd_log, <<c_i, q_in[c_i]>>)
    /\ UNCHANGED <<q_written, boot>>

\* one iteration of the for loop of goto_initial_position (lines 177-183);
\* after the last one, r.sleep() and back to the while test
HomeBody ==
    /\ c_pc = "home_body"
    /\ cmd_pub' = [cmd_pub EXCEPT ![c_i] = i_cmd[c_i]]
    /\ cmd_n' = [cmd_n EXCEPT ![c_i] = @ + 1]
    /\ cmd_ever' = TRUE
    /\ LET e == Abs(i_cmd[c_i] - q_in[c_i])
       IN  max_e' = IF e > max_e THEN e ELSE max_e
    /\ c_src' = SrcAfter(c_src, Label(c_i))
    /\ IF c_i < NJ
          THEN c_i' = c_i + 1 /\ c_pc' = "home_body"
          ELSE c_i' = 0 /\ c_pc' = "home_test"
    /\ UNCHANGED <<shared, cbv, fkv, F_dest, q_out, ik_rc,
                   fk_src, goodMsgSeen, milestones, cposeWrites>>
    /\ cmd_log' = Append(cmd_log, <<c_i, i_cmd[c_i]>>)
    /\ UNCHANGED <<q_written, boot>>

\* HomeSettle with a fault: after the sleep the error is checked again and
\* the loop re-entered when the feedback has left the threshold
HomeSettle_Recheck ==
    /\ c_pc = "settle"
    /\ IF Within(q_in, i_cmd)
          THEN /\ c_pc' = "getline" /\ max_e' = max_e
               /\ milestones' = Append(milestones, "homed")
          ELSE /\ c_pc' = "home_test" /\ max_e' = MaxEInit
               /\ milestones' = milestones
    /\ UNCHANGED <<shared, cbv, fkv, c_i, F_dest, q_out, ik_rc,
                   cmd_pub, fk_src, c_src, goodMsgSeen, cmd_n, cmd_ever,
                   cposeWrites>>
    /\ UNCHANGED extra

\* sleep(2); goto_initial_position returns; the prompt is printed
HomeSettle ==
    /\ c_pc = "settle"
    /\ c_pc' = "getline"
    /\ milestones' = Append(milestones, "homed")
    /\ UNCHANGED <<shared, cbv, fkv, c_i, max_e, F_dest, q_out, ik_rc,
                   cmd_pub, fk_src, c_src, goodMsgSeen, cmd_n, cmd_ever,
                   cposeWrites>>
    /\ UNCHANGED extra

\* getline(cin, ln) returns: the operator has confirmed
OperatorConfirm ==
    /\ c_pc = "getline"
    /\ c_pc' = "set_start"
    /\ milestones' = Append(milestones, "confirmed")
    /\ UNCHANGED <<shared, cbv, fkv, c_i, max_e, F_dest, q_out, ik_rc,
                   cmd_pub, fk_src, c_src, goodMsgSeen, cmd_n,
                   cmd_ever, cposeWrites>>
    /\ UNCHANGED extra

\* SetStartTraj with a fault: the flag is set before getline is called
SetStartTraj_BeforeGetline ==
    /\ c_pc = "getline"
    /\ start_traj' = TRUE
    /\ c_pc' = "getline"
    /\ milestones' = Append(milestones, "start_traj")
    /\ ~start_traj
    /\ UNCHANGED <<q_in, first_js, first_fk, t, p_out, cbv, fkv, c_i, max_e,
                   F_dest, q_out, ik_rc, cmd_pub, fk_src, c_src, goodMsgSeen,
                   cmd_n, cmd_ever, cposeWrites>>
    /\ UNCHANGED extra

\* _start_traj = true;
SetStartTraj ==
    /\ c_pc = "set_start"
    /\ start_traj' = TRUE
    /\ c_pc' = "gen"
    /\ milestones' = Append(milestones, "start_traj")
    /\ UNCHANGED <<q_in, first_js, first_fk, t, p_out, cbv, fkv, c_i, max_e,
                   F_dest, q_out, ik_rc, cmd_pub, fk_src, c_src, goodMsgSeen,
                   cmd_n, cmd_ever, cposeWrites>>
    /\ UNCHANGED extra

\* top of the tracking loop: F_dest.p.data[0] = 0.3*cos(_t/(2*M_PI)) reads _t
GenGoalX ==
    /\ c_pc = "gen"
    /\ F_dest' = [F_dest EXCEPT !.tx = t, !.px = GoalX(t)]
    /\ c_pc' = "gen_y"
    /\ ik_rc' = "none"
    /\ cmd_n' = NoCmds
    /\ UNCHANGED <<shared, cbv, fkv, c_i, max_e, q_out, cmd_pub,
                   fk_src, c_src, goodMsgSeen, milestones, cmd_ever, cposeWrites>>
    /\ cmd_log' = <<>>
    /\ UNCHANGED <<q_written, boot>>

\* F_dest.p.data[1] = 0.3*sin(_t/(2*M_PI)) reads _t again; the rest of F_dest
\* (lines 284-300) is constant
GenGoalY ==
    /\ c_pc = "gen_y"
    /\ F_dest' = TrajFrame(F_dest.tx, t)
    /\ c_i' = 1 /\ c_pc' = "ik_read"
    /\ c_src' = "none"
    /\ UNCHANGED <<shared, cbv, fkv, max_e, q_out, ik_rc, cmd_pub,
                   fk_src, goodMsgSeen, milestones, cmd_n, cmd_ever, cposeWrites>>
    /\ UNCHANGED extra

\* CartToJnt copies one entry of *_q_in as its initial guess
IkRead ==
    /\ c_pc = "ik_read"
    /\ c_src' = SrcAfter(c_src, Label(c_i))
    /\ IF c_i < NJ
          THEN c_i' = c_i + 1 /\ c_pc' = "ik_read"
          ELSE c_i' = 0 /\ c_pc' = "ik_solve"
    /\ UNCHANGED <<shared, cbv, fkv, max_e, F_dest, q_out, ik_rc, cmd_pub,
                   fk_src, goodMsgSeen, milestones, cmd_n, cmd_ever,
                   cposeWrites>>
    /\ UNCHANGED extra

\* IkSolve with a fault: the solver stores its estimate in the initial guess
IkSolve_WritesGuess ==
    /\ c_pc = "ik_solve"
    /\ \E rc \in IkCodes, out \in IkOutputs :
          ik_rc' = rc /\ q_out' = out /\ q_in' = out
    /\ c_pc' = "publish"
    /\ UNCHANGED <<first_js, first_fk, start_traj, t, p_out, cbv, fkv, c_i,
                   max_e, F_dest, cmd_pub, hist>>
    /\ UNCHANGED extra

\* CartToJnt iterates and returns rc, leaving its last estimate in q_out
IkSolve ==
    /\ c_pc = "ik_solve"
    /\ \E rc \in IkCodes, out \in IkOutputs :
          ik_rc' = rc /\ q_out' = out
    /\ c_pc' = "publish"
    /\ UNCHANGED <<shared, cbv, fkv, c_i, max_e, F_dest, cmd_pub, hist>>
    /\ UNCHANGED extra

\* CtrlPublish with a fault: the copy loop (lines 307-309) is left out, so the
\* values published are the ones of the previous publishes
CtrlPublish_NoCopy ==
    /\ c_pc = "publish"
    /\ cmd_pub' = cmd_pub
    /\ cmd_n' = [j \in Joints |-> cmd_n[j] + 1]
    /\ cmd_ever' = TRUE
    /\ c_pc' = "gen"
    /\ UNCHANGED <<shared, cbv, fkv, c_i, max_e, F_dest, q_out, ik_rc,
                   fk_src, c_src, goodMsgSeen, milestones,
                   cposeWrites>>
    /\ cmd_log' = [i \in Joints |-> <<i, cmd_pub[i]>>]
    /\ UNCHANGED <<q_written, boot>>

\* CtrlPublish with a fault: the tracking loop is left after the publishes
CtrlPublish_Once ==
    /\ c_pc = "publish"
    /\ cmd_pub' = q_out
    /\ cmd_n' = [j \in Joints |-> cmd_n[j] + 1]
    /\ cmd_ever' = TRUE
    /\ c_pc' = "done"
    /\ UNCHANGED <<shared, cbv, fkv, c_i, max_e, F_dest, q_out, ik_rc,
                   fk_src, c_src, goodMsgSeen, milestones,
                   cposeWrites>>
    /\ cmd_log' = [i \in Joints |-> <<i, q_out[i]>>]
    /\ UNCHANGED <<q_written, boot>>

\* lines 303-316 after the solve: the message on failure, cmd[i] = q_out[i],
\* the seven publishes, r.sleep()
CtrlPublish ==
    /\ c_pc = "publish"
    /\ cmd_pub' = q_out
    /\ cmd_n' = [j \in Joints |-> cmd_n[j] + 1]
    /\ cmd_ever' = TRUE
    /\ c_pc' = "gen"
    /\ UNCHANGED <<shared, cbv, fkv, c_i, max_e, F_dest, q_out, ik_rc,
                   fk_src, c_src, goodMsgSeen, milestones,
                   cposeWrites>>
    /\ cmd_log' = [i \in Joints |-> <<i, q_out[i]>>]
    /\ UNCHANGED <<q_written, boot>>

\* ------------------------------------------------------------ specification
CbNext == CbWrite \/ CbFlag \/ CbFlagEarly
FkNext == FkWait \/ FkTick \/ FkRead \/ FkPublish \/ FkFlag
CtrlNext ==
    \/ CtrlWaitFk \/ HomeTest \/ HomeBody \/ HomeSettle \/ SetStartTraj
    \/ GenGoalX \/ GenGoalY \/ IkRead \/ IkSolve \/ CtrlPublish

Next ==
    \/ \E js \in JsMsgs : Deliver(js)
    \/ CbNext
    \/ FkNext
    \/ CtrlNext
    \/ OperatorConfirm

Spec == Init /\ [][Next]_vars

\* the three threads are scheduled fairly; the transport and the operator
\* are the environment and owe nothing
FairSpec ==
    Spec /\ WF_vars(CbNext) /\ WF_vars(FkNext) /\ WF_vars(CtrlNext)

\* The program for as long as the operator has not confirmed: ctrl_loop up to
\* and including its blocking getline, the other two threads unchanged.
StartupCtrlNext == CtrlWaitFk \/ HomeTest \/ HomeBody \/ HomeSettle

StartupNext ==
    \/ \E js \in JsMsgs : Deliver(js)
    \/ CbNext
    \/ FkNext
    \/ StartupCtrlNext

StartupSpec ==
    /\ Init /\ [][StartupNext]_vars
    /\ WF_vars(CbNext) /\ WF_vars(FkNext) /\ WF_vars(StartupCtrlNext)

\* The whole program on a feedback stream that reports the homing target, the
\* three threads scheduled fairly.  *_q_in is off the target until the first
\* message is stored, and the threads can be running by then (CbFlagEarly).
ProgressMsgs == {JsHome}

ProgressNext ==
    \/ \E js \in ProgressMsgs : Deliver(js)
    \/ CbNext
    \/ FkNext
    \/ CtrlNext
    \/ OperatorConfirm

ProgressSpec ==
    /\ Init /\ [][ProgressNext]_vars
    /\ WF_vars(CbNext) /\ WF_vars(FkNext) /\ WF_vars(CtrlNext)

\* The program from the entry of main() up to the operator's confirmation
BootNext ==
    \/ \E outcome \in LoadOutcomes : LoadModel(outcome)
    \/ ExitOnLoadFailure
    \/ Construct
    \/ Run
    \/ StartupNext

BootSpec == BootInit /\ [][BootNext]_vars


\* Goal generation on its own: ctrl_loop at the top of its tracking loop after
\* a start-up on feedback JsHome, with the clock at any number of periods the
\* pose thread can have counted by then.
MaxTrajT == 320

TrajInit ==
    /\ q_in = JsHome
    /\ first_js = TRUE /\ first_fk = TRUE /\ start_traj = TRUE
    /\ t \in 0..MaxTrajT
    /\ p_out = JntToCartFrame
    /\ cb_pc = "idle" /\ cb_i = 0 /\ cb_js = ZeroVec
    /\ fk_pc = "tick" /\ fk_i = 0
    /\ cpose = FillPose(ZeroPose, JntToCartFrame) /\ pose_pub = cpose
    /\ c_pc = "gen" /\ c_i = 0 /\ max_e = 0 /\ F_dest = NoFrame
    /\ q_out = ZeroVec /\ ik_rc = "none"
    /\ cmd_pub = i_cmd
    /\ fk_src = "none" /\ c_src = "none"
    /\ goodMsgSeen = TRUE
    /\ milestones = Startup \o <<"start_traj">>
    /\ cmd_n = [j \in Joints |-> 1] /\ cmd_ever = TRUE
    /\ cposeWrites = CountWrites
    /\ cmd_log = [i \in Joints |-> <<i, i_cmd[i]>>] /\ q_written = Joints
    /\ boot = Spinning

TrajNext == GenGoalX \/ GenGoalY

TrajSpec == TrajInit /\ [][TrajNext]_vars


\* ------------------------------------------------------------------ claims
IkFailed == ik_rc \notin {"none", "E_NOERROR"}
Tracking == c_pc \in {"gen", "gen_y", "ik_read", "ik_solve", "publish"}
HomingReturned == c_pc \notin {"wait_fk", "home_test", "home_body", "settle"}

\* C1: on a tracking tick whose inverse-kinematics solve returned an error,
\* no joint command is published on any of the 7 channels for that tick.
C1_NoCommandOnIkFailure ==
    (Tracking /\ IkFailed) => \A j \in Joints : cmd_n[j] = 0

\* C2: every pass of a reader over the JointVector (forward kinematics,
\* inverse kinematics, the homing error) sees entries of one feedback message
\* only, never a mix of two.
C2_ReadersSeeOneMessage == fk_src # "torn" /\ c_src # "torn"

\* C3: goto_initial_position has returned (its loop was left) only if some
\* single delivered feedback message had all 7 joints within the threshold
\* of the target.
C3_HomingReturnsOnlyAfterGoodMessage == HomingReturned => goodMsgSeen


IsPrefix(a, b) == Len(a) <= Len(b) /\ a = SubSeq(b, 1, Len(a))

\* C4: tracking-active is true only after pose-computed was seen, homing
\* returned and the operator confirmed, in this order; it is false before
\* the confirmation and it is assigned at most once.
C4_StartOnlyAfterConfirmation ==
    /\ start_traj <=> milestones = Startup \o <<"start_traj">>
    /\ ~start_traj => IsPrefix(milestones, Startup)
    /\ "confirmed" \notin {milestones[k] : k \in 1..Len(milestones)}
          => ~start_traj /\ c_pc \in {"wait_fk", "home_test", "home_body",
                                      "settle", "getline"}

C4_Witness == start_traj /\ c_pc = "publish" /\ first_fk

\* C5: the three flags start false; feedback-received and pose-computed
\* never go from true to false, whatever step is taken, and stay true under
\* repeated feedback messages and pose ticks.
C5_FlagsMonotone ==
    /\ ~first_js /\ ~first_fk /\ ~start_traj
    /\ [][(first_js => first_js') /\ (first_fk => first_fk')]_vars
    /\ [](fk_pc # "wait_js" => first_js)
    /\ [](c_pc # "wait_fk" => first_fk)

\* a second feedback message is about to set the flag again, during a pose tick
C5_Witness == first_js /\ first_fk /\ cb_pc = "flag" /\ fk_pc = "flag"

FkTickStep == fk_pc = "tick" /\ fk_pc' = "read"

\* C6: _t is 0 while tracking-active is false; only the top of the
\* pose-estimation loop changes it, by exactly one period, and it does so on
\* every tick that sees tracking-active true, whatever the last
\* inverse-kinematics solve returned.
C6_ElapsedTime ==
    /\ [](~start_traj => t = 0)
    /\ [][t' # t => FkTickStep /\ start_traj /\ t' = t + 1]_vars
    /\ [][FkTickStep /\ start_traj => t' = t + 1]_vars
    /\ [][FkTickStep /\ ~start_traj => t' = t]_vars

\* the clock has advanced on a tick taken after a failed solve
C6_Witness == t >= 1 /\ IkFailed /\ fk_pc = "read" /\ fk_i = 1 /\ F_dest.ty < t

\* C7: the published pose's orientation fields w, x, y, z are each assigned
\* exactly once per tick and equal qw, qx, qy, qz of the forward-kinematics
\* rotation.
C7_OrientationFromQuaternion ==
    pose_pub # NoPose =>
        /\ pose_pub.orientation =
              LET quat == GetQuaternion(p_out.M)
              IN  [w |-> quat.qw, x |-> quat.qx, y |-> quat.qy, z |-> quat.qz]
        /\ \A f \in {"w", "x", "y", "z"} : cposeWrites[f] = 1

\* C8: while feedback-received is false the pose-estimation task is still in
\* its wait: it has read no joint entry, stored no pose, published nothing
\* and not set pose-computed.
C8_NoPoseBeforeFeedback ==
    ~first_js =>
        /\ fk_pc = "wait_js" /\ fk_src = "none"
        /\ p_out = IdentityFrame /\ cpose = ZeroPose /\ pose_pub = NoPose
        /\ ~first_fk

\* the first message is half written and the flag not yet set
C8_Witness == ~first_js /\ cb_pc = "write" /\ cb_i = 4 /\ fk_pc = "wait_js"

\* C9: no joint command is published while pose-computed is false; a
\* published command implies an ingested feedback message and a completed
\* forward-kinematics evaluation.
C9_NoCommandBeforePose ==
    /\ ~first_fk => ~cmd_ever /\ c_pc = "wait_fk" /\ cmd_pub = ZeroVec
    /\ cmd_ever => first_js /\ first_fk /\ pose_pub # NoPose

\* feedback is in, the first pose is published, the flag is not yet set
C9_Witness == first_js /\ ~first_fk /\ fk_pc = "flag" /\ ~cmd_ever

\* C10: while the ctrl_loop thread stays in goto_initial_position or at its
\* getline forever, the pose-estimation task publishes again and again and
\* the callback is again and again ready for the next feedback message.
C10_HomingBlocksOnlyCtrl ==
    /\ []<>(~CtrlBlocked \/ fk_pc = "flag")
    /\ []<>(~CtrlBlocked \/ cb_pc = "idle")

\* the operator is awaited, a pose was just published, feedback is being written
C10_Witness == c_pc = "getline" /\ fk_pc = "flag" /\ cb_pc = "write"

\* C11: whenever the process has terminated because the model could not be
\* loaded (no tree, or no chain from base to tip), a diagnostic was emitted,
\* and no subscription, publisher, task or published message exists.
C11_LoadFailureDiagnosed ==
    boot.pc = "exited" =>
        /\ boot.diag
        /\ ~boot.wired /\ ~boot.tasks
        /\ ~cmd_ever /\ pose_pub = NoPose

\* C12: *_q_in always has as many entries as the chain has joints, and a
\* step changes it only if it is the callback storing one entry of the
\* message being ingested; no step of get_dirkin, goto_initial_position or
\* ctrl_loop (the inverse-kinematics solve included) changes any entry.
C12_QInOnlyByCallback ==
    /\ [](Len(q_in) = NJ)
    /\ [][q_in' # q_in =>
              /\ cb_pc = "write"
              /\ q_in' = [q_in EXCEPT ![cb_i] = cb_js[cb_i]]
              /\ fk_pc' = fk_pc /\ c_pc' = c_pc]_vars

\* a solve has just used the ingested vector as its guess, a pose tick has
\* just read it, and it still holds the last message
C12_Witness ==
    c_pc = "publish" /\ fk_pc = "publish" /\ cb_pc = "idle" /\ q_in = JsB

\* 2*pi seconds in periods of 1/_freq
TwoPiTicks == (TwoPiMilli \div PeriodMs)
Near(a, b) == Abs(a - b) <= 5

\* C13: every desired pose generated in ctrl_loop has z = 1.0 and identity
\* orientation; the one generated for t = 0 is at (0.3, 0, 1.0); and the
\* position is periodic in t with period 2*pi: the one generated for
\* t >= 2*pi is, within 5 mm, the one for t - 2*pi, so that t = 2*pi gives
\* (0.3, 0, 1.0) again.
C13_PeriodTwoPi ==
    c_pc = "ik_read" =>
        /\ F_dest.z = 1000 /\ F_dest.M = "I"
        /\ F_dest.tx = 0 => Near(F_dest.px, 300)
        /\ F_dest.ty = 0 => Near(F_dest.py, 0)
        /\ F_dest.tx >= TwoPiTicks =>
              Near(F_dest.px, GoalX(F_dest.tx - TwoPiTicks))
        /\ F_dest.ty >= TwoPiTicks =>
              Near(F_dest.py, GoalY(F_dest.ty - TwoPiTicks))

\* C14: with the threads scheduled fairly, if from some point on the
\* feedback vector stays within the threshold of the target on all 7 joints,
\* goto_initial_position leaves its loop, sleeps and returns; and if no
\* feedback message is ever within the threshold, it never leaves the loop.
C14_HomingTerminates ==
    /\ <>[]Within(q_in, i_cmd) => <>(c_pc = "getline")
    /\ []~goodMsgSeen => [](c_pc \notin {"settle", "getline"})

\* C15: a tracking tick publishes nothing before its solve has returned;
\* when the solve of the tick returned E_NOERROR, the tick's publishes are
\* exactly one per channel, channels 1..7 in this order, channel i carrying
\* entry i of q_out; and q_out is written by the solve of the tick only.
C15_OneCommandPerChannel ==
    /\ [](c_pc \in {"gen_y", "ik_read", "ik_solve", "publish"} =>
            cmd_log = <<>> /\ cmd_n = NoCmds)
    /\ [](c_pc = "gen" /\ ik_rc = "E_NOERROR" =>
            /\ cmd_log = [i \in Joints |-> <<i, q_out[i]>>]
            /\ cmd_n = [j \in Joints |-> 1]
            /\ cmd_pub = q_out)
    /\ [][q_out' # q_out => c_pc = "ik_solve" /\ c_pc' = "publish"]_vars

\* a successful tick, taken after the clock has advanced, has published IkSolB
C15_Witness ==
    /\ c_pc = "gen" /\ ik_rc = "E_NOERROR" /\ t = MaxT
    /\ cmd_pub = IkSolB /\ Len(cmd_log) = NJ

\* C16: while tracking-active is false, every publish of a joint command puts
\* entry i of the homing target on channel i; and when goto_initial_position
\* has left its loop, its last pass has published the target on each of the
\* 7 channels; the first test of the loop never leaves it, whatever the
\* feedback is when the routine is entered.
C16_HomingCommandsOnly ==
    /\ [](~start_traj =>
            /\ \A k \in 1..Len(cmd_log) : cmd_log[k][2] = i_cmd[cmd_log[k][1]]
            /\ \A j \in Joints : cmd_n[j] > 0 => cmd_pub[j] = i_cmd[j])
    /\ [][~start_traj /\ (cmd_pub' # cmd_pub \/ cmd_n' # cmd_n)
             /\ cmd_n' # NoCmds =>
              /\ c_pc = "home_body"
              /\ cmd_pub' = [cmd_pub EXCEPT ![c_i] = i_cmd[c_i]]
              /\ cmd_log' = Append(cmd_log, <<c_i, i_cmd[c_i]>>)]_vars
    /\ [](c_pc \in {"settle", "getline", "set_start"} =>
            /\ cmd_log = [i \in Joints |-> <<i, i_cmd[i]>>]
            /\ cmd_pub = i_cmd /\ cmd_ever)
    /\ [][c_pc = "home_test" /\ max_e = MaxEInit => c_pc' # "settle"]_vars

\* homing has left its loop with the feedback on the target, and the target
\* is what was last commanded on every channel
C16_Witness ==
    /\ c_pc = "settle" /\ ~start_traj /\ q_in = JsHome /\ cb_pc = "idle"
    /\ fk_pc = "tick" /\ cmd_pub = i_cmd /\ Len(cmd_log) = NJ

AfterHomingLoop == c_pc \in {"settle", "getline", "set_start"}

\* C18: from the exit of the homing loop until tracking-active is set, no
\* step publishes a joint command, none recomputes the homing error or goes
\* back into the loop; and the step after the confirmation sets
\* tracking-active whatever *_q_in holds by then.
C18_NoRecheckBeforeStart ==
    /\ [][AfterHomingLoop =>
              /\ cmd_pub' = cmd_pub /\ cmd_n' = cmd_n /\ cmd_log' = cmd_log
              /\ max_e' = max_e
              /\ c_pc' \notin {"wait_fk", "home_test", "home_body"}]_vars
    /\ [][c_pc = "set_start" /\ c_pc' # c_pc =>
              start_traj' /\ c_pc' = "gen"]_vars
    /\ [](AfterHomingLoop => ~start_traj)

\* tracking-active has just been set while the feedback ingested last has
\* joint 4 far from the target
C18_Witness ==
    /\ c_pc = "gen" /\ start_traj /\ t = 0 /\ F_dest = NoFrame
    /\ q_in = JsA /\ cb_pc = "idle" /\ cmd_pub = i_cmd

NoFeedbackYet == cb_pc = "idle" /\ q_written = {}

====
